---- MODULE Spec2Model ----
(***************************************************************************)
(* The Markdown serializer of src/renderer.js as a state machine.          *)
(*                                                                         *)
(* Text is a sequence of one-character strings, so that every replace,     *)
(* trim and template of the source is computed character by character.    *)
(* A document is a tree of node records; serialize walks it in post-order  *)
(* (serializeNode renders a node's children before it consults the rules   *)
(* for the node), one node per step, with the module-level tableHeader     *)
(* outliving every call.                                                   *)
(***************************************************************************)
EXTENDS Naturals, Sequences, FiniteSets

VARIABLES
    mode,         \* the family of documents and instances this run draws from
    rules,        \* this.rules of the serializer instance in use
    document,     \* the document of the serialize call in progress
    pos,          \* number of nodes of the document already rendered
    stack,        \* return values of serializeNode not yet consumed by a parent
    tableHeader,  \* the module-level `let tableHeader`
    output,       \* the return value of the last completed serialize call
    status,       \* "idle" | "running" | "done" | "error"
    calls,        \* serialize calls started so far
    log           \* the rule dispatches of the last step

vars == <<mode, rules, document, pos, stack, tableHeader, output, status, calls, log>>

----------------------------------------------------------------------------
(* Bounds of the model.                                                    *)

MaxCalls == 2    \* serialize calls in one behaviour
MaxLen == 3      \* characters of a text the plain-text rule is given
MaxTop == 2      \* top-level nodes of a document
MaxDepth == 1    \* lists nested inside a list
MaxMarks == 2    \* marks of a leaf
MaxRules == 2    \* caller-supplied rules of an instance
MaxCols == 2     \* columns of a table
MaxRows == 2     \* data rows of a table

----------------------------------------------------------------------------
(* JavaScript values.                                                      *)

\* The value `undefined`: a one-element sequence whose element is no
\* character, so it differs from every text.
Undefined == <<"undefined">>

\* The text a template literal `${v}` produces for v.
Str(v) == IF v = Undefined THEN <<"u", "n", "d", "e", "f", "i", "n", "e", "d">> ELSE v

\* `if (v)`: undefined and the empty string are falsy.
Truthy(v) == v # Undefined /\ v # <<>>

\* `v || ""`.
OrEmpty(v) == IF Truthy(v) THEN v ELSE <<>>

\* Immutable's List.join turns undefined (and null) into the empty string.
JoinItem(v) == IF v = Undefined THEN <<>> ELSE v

RECURSIVE Join(_, _)
Join(list, sep) ==
    IF list = <<>> THEN <<>>
    ELSE IF Len(list) = 1 THEN JoinItem(list[1])
    ELSE JoinItem(list[1]) \o sep \o Join(Tail(list), sep)

\* String.prototype.replace(/c/g, rep) for a one-character pattern c.
RECURSIVE ReplaceAll(_, _, _)
ReplaceAll(s, c, rep) ==
    IF s = <<>> THEN <<>>
    ELSE (IF Head(s) = c THEN rep ELSE <<Head(s)>>) \o ReplaceAll(Tail(s), c, rep)

\* The backtick, which a TLA+ string cannot hold.
BackTick == "BACKTICK"

\* The characters \s matches (those the model's texts can hold).
WhiteSpace == {" ", "\n", "\t", "\r", "\f"}

\* The characters after which ^ matches under the m flag.
LineTerminators == {"\n", "\r"}

\* replace(/^\s+/g, ""): without the m flag ^ matches at the start only.
RECURSIVE TrimLeft(_)
TrimLeft(s) ==
    IF s # <<>> /\ Head(s) \in WhiteSpace THEN TrimLeft(Tail(s)) ELSE s

RECURSIVE TrimRight(_)
TrimRight(s) ==
    IF s # <<>> /\ s[Len(s)] \in WhiteSpace THEN TrimRight(SubSeq(s, 1, Len(s) - 1)) ELSE s

\* String.prototype.trim.
Trim(s) == TrimRight(TrimLeft(s))

\* The external URL encoder of ./urls (not part of this file).
Encode(s) == ReplaceAll(Trim(s), " ", <<"%", "2", "0">>)

\* Index of the first "]" at or after i with no line terminator before it, or 0.
RECURSIVE CloseBracket(_, _)
CloseBracket(s, i) ==
    IF i > Len(s) \/ s[i] \in LineTerminators THEN 0
    ELSE IF s[i] = "]" THEN i
    ELSE CloseBracket(s, i + 1)

\* desc.replace(/\[(.*?)\]/g, "").
RECURSIVE StripBrackets(_)
StripBrackets(s) ==
    IF s = <<>> THEN <<>>
    ELSE IF Head(s) = "[" /\ CloseBracket(s, 2) # 0
         THEN StripBrackets(SubSeq(s, CloseBracket(s, 2) + 1, Len(s)))
    ELSE <<Head(s)>> \o StripBrackets(Tail(s))

formatLinkBar(img, url, title, desc, domain) ==
    <<"%", "%", "%", "\n">>
    \o (IF Truthy(img) THEN Str(url) \o <<"\n">> \o Str(img) ELSE Str(url)) \o <<"\n">>
    \o Str(title) \o <<"\n">>
    \o StripBrackets(desc) \o <<"\n">>
    \o Str(domain) \o <<"\n">>
    \o <<"%", "%", "%", "\n">>

formatSoftBreak(children) == ReplaceAll(children, "\n", <<" ", " ", "\n">>)

RECURSIVE IndentAfter(_)
IndentAfter(s) ==
    IF s = <<>> THEN <<>>
    ELSE <<Head(s)>>
         \o (IF Head(s) \in LineTerminators THEN <<" ", " ", " ">> ELSE <<>>)
         \o IndentAfter(Tail(s))

\* As IndentLines, with the first line alone indented (the m flag left out).
IndentLinesBug(children) == <<" ", " ", " ">> \o children

\* children.replace(/^/gm, "   "): three spaces at the start of the text and
\* after every line terminator, the last one included.
IndentLines(children) == <<" ", " ", " ">> \o IndentAfter(children)

----------------------------------------------------------------------------
(* Nodes.  Every node is a record of the same shape; `data` is a mapping   *)
(* from the names of the fields it holds to their values.                  *)

\* A data mapping without fields.
NoData == <<>>

\* obj.getIn(["data", field]) for a field that holds text.
getIn(obj, field) == IF field \in DOMAIN obj.data THEN obj.data[field] ELSE Undefined

\* obj.getIn(["data", field]) as a condition, for a field that holds a boolean.
getFlag(obj, field) == field \in DOMAIN obj.data /\ obj.data[field]

Block(type, data, nodes) ==
    [kind |-> "block", type |-> type, data |-> data, nodes |-> nodes, leaves |-> <<>>]

Inline(type, data, nodes) ==
    [kind |-> "inline", type |-> type, data |-> data, nodes |-> nodes, leaves |-> <<>>]

Leaf(text, marks) == [text |-> text, marks |-> marks]

Text(leaves) ==
    [kind |-> "text", type |-> "", data |-> NoData, nodes |-> <<>>, leaves |-> leaves]

Document(nodes) ==
    [kind |-> "document", type |-> "", data |-> NoData, nodes |-> nodes, leaves |-> <<>>]

\* new String({ text }): the record the plain-text rule accepts.
StringObj == [kind |-> "string", type |-> ""]

\* A mark of a leaf.
MarkObj(type) == [kind |-> "mark", type |-> type]

----------------------------------------------------------------------------
(* The rules.  A rule's serialize returns a value and may write            *)
(* tableHeader or throw: [ret, tableHeader, threw].                        *)

Ret(v, th) == [ret |-> v, tableHeader |-> th, threw |-> FALSE]

Throw(th) == [ret |-> Undefined, tableHeader |-> th, threw |-> TRUE]

\* As Escape, with the backslash escaped last.
EscapeBug(children) ==
    ReplaceAll(ReplaceAll(ReplaceAll(ReplaceAll(ReplaceAll(ReplaceAll(Str(children),
        "@", <<"\\", "@">>),
        "!", <<"\\", "!">>),
        "[", <<"\\", "[">>),
        "]", <<"\\", "]">>),
        "%", <<"\\", "%">>),
        "\\", <<"\\", "\\">>)

\* RULES[0]: the escaping of the plain-text rule.
Escape(children) ==
    ReplaceAll(ReplaceAll(ReplaceAll(ReplaceAll(ReplaceAll(ReplaceAll(Str(children),
        "\\", <<"\\", "\\">>),
        "@", <<"\\", "@">>),
        "!", <<"\\", "!">>),
        "[", <<"\\", "[">>),
        "]", <<"\\", "]">>),
        "%", <<"\\", "%">>)

\* RULES[0]: the plain-text rule.
StringRule(obj, children, th) ==
    IF obj.kind = "string" THEN Ret(Escape(children), th) ELSE Ret(Undefined, th)

\* The alignment marker a table-head appends.
AlignMarker(obj) ==
    IF "align" \notin DOMAIN obj.data THEN <<"|", " ", "-", "-", "-", " ">>
    ELSE CASE obj.data.align = "left" -> <<"|", ":", "-", "-", "-", " ">>
           [] obj.data.align = "center" -> <<"|", ":", "-", "-", "-", ":">>
           [] obj.data.align = "right" -> <<"|", " ", "-", "-", "-", ":">>
           [] OTHER -> <<"|", " ", "-", "-", "-", " ">>

Hashes(n) == [i \in 1..n |-> "#"]

\* RULES[1]: the block rule.  parent is [isDocument, type] of
\* document.getParent(obj.key).
BlockRule(obj, children, parent, th) ==
    IF obj.kind # "block" THEN Ret(Undefined, th)
    ELSE CASE obj.type = "table" -> Ret(children, <<>>)
      [] obj.type = "table-head" ->
            Ret(<<"|", " ">> \o Str(children) \o <<" ">>, th \o AlignMarker(obj))
      [] obj.type = "table-row" ->
            IF th # <<>>
            THEN Ret(Str(children) \o <<"|", "\n">> \o th \o <<"|", "\n">>, <<>>)
            ELSE Ret(Str(children) \o <<"|", "\n">>, th)
      [] obj.type = "table-cell" -> Ret(<<"|", " ">> \o Str(children) \o <<" ">>, th)
      [] obj.type = "paragraph" ->
            IF parent.type = "list-item"
            THEN Ret(formatSoftBreak(children), th)
            ELSE Ret(<<"\n">> \o formatSoftBreak(children) \o <<"\n">>, th)
      [] obj.type = "code" ->
            Ret(<<BackTick, BackTick, BackTick, "\n">> \o Str(children) \o <<"\n", BackTick, BackTick, BackTick, "\n">>, th)
      [] obj.type = "block-quote" -> Ret(<<">", " ">> \o Str(children) \o <<"\n">>, th)
      [] obj.type \in {"todo-list", "bulleted-list", "ordered-list"} ->
            IF parent.isDocument
            THEN Ret(<<"\n">> \o Str(children), th)
            ELSE Ret(<<"\n">> \o IndentLines(children), th)
      [] obj.type = "list-item" ->
            CASE parent.type = "ordered-list" ->
                    Ret(<<"1", ".", " ">> \o formatSoftBreak(children) \o <<"\n">>, th)
              [] parent.type = "todo-list" ->
                    Ret((IF getFlag(obj, "checked") THEN <<"[", "x", "]">> ELSE <<"[", " ", "]">>)
                        \o <<" ">> \o formatSoftBreak(children) \o <<"\n">>, th)
              [] OTHER -> Ret(<<"*", " ">> \o formatSoftBreak(children) \o <<"\n">>, th)
      [] obj.type = "heading1" -> Ret(<<"#", " ">> \o formatSoftBreak(children), th)
      [] obj.type = "heading2" -> Ret(Hashes(2) \o <<" ">> \o Str(children), th)
      [] obj.type = "heading3" -> Ret(Hashes(3) \o <<" ">> \o Str(children), th)
      [] obj.type = "heading4" -> Ret(Hashes(4) \o <<" ">> \o Str(children), th)
      [] obj.type = "heading5" -> Ret(Hashes(5) \o <<" ">> \o Str(children), th)
      [] obj.type = "heading6" -> Ret(Hashes(6) \o <<" ">> \o Str(children), th)
      [] obj.type = "horizontal-rule" -> Ret(<<"-", "-", "-", "\n">>, th)
      [] obj.type = "image" ->
            Ret(<<"!", "[">> \o Str(getIn(obj, "alt")) \o <<"]", "(">>
                \o Encode(OrEmpty(getIn(obj, "src"))) \o <<")", "\n">>, th)
      [] obj.type = "linkbar" ->
            IF getIn(obj, "description") = Undefined
            THEN Throw(th)
            ELSE Ret(formatLinkBar(Encode(OrEmpty(getIn(obj, "image"))),
                                   Encode(OrEmpty(getIn(obj, "url"))),
                                   getIn(obj, "title"), getIn(obj, "description"),
                                   getIn(obj, "domain")), th)
      [] OTHER -> Ret(Undefined, th)

\* RULES[2]: the inline rule.
InlineRule(obj, children, th) ==
    IF obj.kind # "inline" THEN Ret(Undefined, th)
    ELSE CASE obj.type = "link" ->
            Ret(<<"[">> \o Trim(children) \o <<"]", "(">>
                \o Encode(OrEmpty(getIn(obj, "href"))) \o <<")">>, th)
      [] obj.type = "code-line" -> Ret(<<BackTick>> \o Str(children) \o <<BackTick>>, th)
      [] obj.type = "mention" ->
            IF Truthy(getIn(obj, "username"))
            THEN Ret((IF getFlag(obj, "anonymous") THEN <<"!">> ELSE <<"@">>)
                     \o getIn(obj, "username") \o <<" ">>, th)
            ELSE Ret(<<>>, th)
      [] OTHER -> Ret(Undefined, th)

\* RULES[3]: the mark rule.
MarkRule(obj, children, th) ==
    IF obj.kind # "mark" THEN Ret(Undefined, th)
    ELSE CASE obj.type = "bold" -> Ret(<<"*", "*">> \o Str(children) \o <<"*", "*">>, th)
      [] obj.type = "italic" -> Ret(<<"*">> \o Str(children) \o <<"*">>, th)
      [] obj.type = "code" -> Ret(<<BackTick>> \o Str(children) \o <<BackTick>>, th)
      [] obj.type = "inserted" -> Ret(<<"_", "_">> \o Str(children) \o <<"_", "_">>, th)
      [] obj.type = "deleted" -> Ret(<<"~", "~">> \o Str(children) \o <<"~", "~">>, th)
      [] OTHER -> Ret(Undefined, th)

\* A built-in rule, by its index in RULES.
Builtin(n) == [builtin |-> n, hasSerialize |-> TRUE, kind |-> "", type |-> "", text |-> <<>>]

\* A caller-supplied rule: it answers `text` for objects of one kind and type.
Custom(kind, type, text) ==
    [builtin |-> 0, hasSerialize |-> TRUE, kind |-> kind, type |-> type, text |-> text]

\* A caller-supplied rule without a serialize function.
NoSerialize ==
    [builtin |-> 0, hasSerialize |-> FALSE, kind |-> "", type |-> "", text |-> <<>>]

RULES == <<Builtin(1), Builtin(2), Builtin(3), Builtin(4)>>

\* As Constructor, with the built-in rules ahead of the caller's.
ConstructorBug(custom) == RULES \o custom

\* constructor: this.rules = [...(options.rules || []), ...RULES].
Constructor(custom) == custom \o RULES

\* rule.serialize(obj, children, document).
RuleSerialize(rule, obj, children, parent, th) ==
    CASE rule.builtin = 1 -> StringRule(obj, children, th)
      [] rule.builtin = 2 -> BlockRule(obj, children, parent, th)
      [] rule.builtin = 3 -> InlineRule(obj, children, th)
      [] rule.builtin = 4 -> MarkRule(obj, children, th)
      [] OTHER -> IF obj.kind = rule.kind /\ obj.type = rule.type
                  THEN Ret(rule.text, th)
                  ELSE Ret(Undefined, th)

\* One dispatch as the log records it: the object, the rules invoked, the
\* value returned and tableHeader before and after.
Entry(obj, children, before, d) ==
    [kind |-> obj.kind, type |-> obj.type, children |-> children,
     invoked |-> d.invoked, ret |-> d.ret, before |-> before, after |-> d.tableHeader]

\* The loop `for (const rule of this.rules)` from rule i on: the first truthy
\* return value wins; `invoked` lists the rules whose serialize was called.
\* AfterRule is the loop once rule i has returned r.
RECURSIVE Dispatch(_, _, _, _, _, _, _)
RECURSIVE AfterRule(_, _, _, _, _, _, _)
AfterRule(rs, i, obj, children, parent, invoked, r) ==
    IF r.threw \/ Truthy(r.ret)
    THEN [ret |-> r.ret, tableHeader |-> r.tableHeader, threw |-> r.threw,
          invoked |-> Append(invoked, i)]
    ELSE Dispatch(rs, i + 1, obj, children, parent, r.tableHeader, Append(invoked, i))

Dispatch(rs, i, obj, children, parent, th, invoked) ==
    IF i > Len(rs)
    THEN [ret |-> Undefined, tableHeader |-> th, threw |-> FALSE, invoked |-> invoked]
    ELSE IF ~rs[i].hasSerialize
    THEN Dispatch(rs, i + 1, obj, children, parent, th, invoked)
    ELSE AfterRule(rs, i, obj, children, parent, invoked,
                   RuleSerialize(rs[i], obj, children, parent, th))

NoParent == [isDocument |-> FALSE, type |-> ""]

\* serializeLeaves from mark i on: marks fold over the accumulator, which is
\* the return value of the previous mark's dispatch.  AfterMark is the fold
\* once the dispatch for mark i has returned d.
RECURSIVE ReduceMarks(_, _, _, _, _, _)
RECURSIVE AfterMark(_, _, _, _, _, _, _)
AfterMark(rs, marks, i, acc, th, lg, d) ==
    ReduceMarks(rs, marks, i + 1, d.ret, d.tableHeader,
                Append(lg, Entry(MarkObj(marks[i]), acc, th, d)))

ReduceMarks(rs, marks, i, acc, th, lg) ==
    IF i > Len(marks)
    THEN [ret |-> acc, tableHeader |-> th, log |-> lg]
    ELSE AfterMark(rs, marks, i, acc, th, lg,
                   Dispatch(rs, 1, MarkObj(marks[i]), acc, NoParent, th, <<>>))

\* The reduce over the marks of a leaf whose text serializeString gave d for.
AfterString(rs, leaf, th, lg, d) ==
    ReduceMarks(rs, leaf.marks, 1, d.ret, d.tableHeader,
                Append(lg, Entry(StringObj, leaf.text, th, d)))

\* serializeString followed by the reduce over the leaf's marks.
serializeLeaves(rs, leaf, th, lg) ==
    AfterString(rs, leaf, th, lg, Dispatch(rs, 1, StringObj, leaf.text, NoParent, th, <<>>))

\* leaves.map(this.serializeLeaves) from leaf i on; AfterLeaf is the map once
\* leaf i has given r.
RECURSIVE MapLeaves(_, _, _, _, _, _)
RECURSIVE AfterLeaf(_, _, _, _, _)
AfterLeaf(rs, leaves, i, acc, r) ==
    MapLeaves(rs, leaves, i + 1, r.tableHeader, r.log, Append(acc, r.ret))

MapLeaves(rs, leaves, i, th, lg, acc) ==
    IF i > Len(leaves)
    THEN [list |-> acc, tableHeader |-> th, log |-> lg]
    ELSE AfterLeaf(rs, leaves, i, acc, serializeLeaves(rs, leaves[i], th, lg))

----------------------------------------------------------------------------
(* The walker.  A node is named by its path, the child indices from the    *)
(* document down to it.                                                    *)

RECURSIVE NodeAt(_, _)
NodeAt(node, path) ==
    IF path = <<>> THEN node ELSE NodeAt(node.nodes[Head(path)], Tail(path))

\* document.getParent(key), as much of it as the rules read.
getParent(doc, path) ==
    [isDocument |-> Len(path) = 1, type |-> NodeAt(doc, SubSeq(path, 1, Len(path) - 1)).type]

\* The order in which serializeNode hands nodes to the rules: the nodes below
\* `path` from child i on, children before their parent.
RECURSIVE PostOrder(_, _, _)
PostOrder(doc, path, i) ==
    IF i > Len(NodeAt(doc, path).nodes) THEN <<>>
    ELSE PostOrder(doc, Append(path, i), 1) \o <<Append(path, i)>> \o PostOrder(doc, path, i + 1)

Order(doc) == PostOrder(doc, <<>>, 1)

\* The last k entries of the stack.
Top(stk, k) == SubSeq(stk, Len(stk) - k + 1, Len(stk))

Pop(stk, k) == SubSeq(stk, 1, Len(stk) - k)

\* serializeNode of a text node whose leaves gave r.
TextResult(stk, r) ==
    [stack |-> Append(stk, Join(r.list, <<>>)), tableHeader |-> r.tableHeader,
     threw |-> FALSE, log |-> r.log]

\* serializeNode of another node, with k children, whose dispatch gave d.
NodeResult(node, k, children, stk, th, d) ==
    [stack |-> Append(Pop(stk, k), d.ret), tableHeader |-> d.tableHeader,
     threw |-> d.threw, log |-> <<Entry(node, children, th, d)>>]

\* The rule loop of serializeNode for a node with the given children text.
NodeDispatch(doc, rs, path, node, k, children, stk, th) ==
    NodeResult(node, k, children, stk, th,
               Dispatch(rs, 1, node, children, getParent(doc, path), th, <<>>))

\* serializeNode for `node`, at `path`, its children already rendered and on
\* the stack: [stack, tableHeader, threw, log].
serializeAt(doc, rs, path, node, stk, th) ==
    IF node.kind = "text"
    THEN TextResult(stk, MapLeaves(rs, node.leaves, 1, th, <<>>, <<>>))
    ELSE NodeDispatch(doc, rs, path, node, Len(node.nodes),
                      Join(Top(stk, Len(node.nodes)), <<>>), stk, th)

serializeNode(doc, rs, path, stk, th) ==
    serializeAt(doc, rs, path, NodeAt(doc, path), stk, th)

\* As JoinElements, with nothing between the elements.
JoinElementsBug(elements) == TrimLeft(Join(elements, <<>>))

\* elements.join("\n").replace(/^\s+/g, "").
JoinElements(elements) == TrimLeft(Join(elements, <<"\n">>))

\* A whole serialize call from node i of the order on, as the steps below
\* run it: the state the call ends in.  AfterNode is the call once node i has
\* given r.
RECURSIVE Run(_, _, _, _, _)
RECURSIVE AfterNode(_, _, _, _)
AfterNode(doc, rs, i, r) ==
    IF r.threw
    THEN [status |-> "error", output |-> <<>>, tableHeader |-> r.tableHeader]
    ELSE Run(doc, rs, i + 1, r.stack, r.tableHeader)

Run(doc, rs, i, stk, th) ==
    IF i > Len(Order(doc))
    THEN [status |-> "done", output |-> JoinElements(stk), tableHeader |-> th]
    ELSE AfterNode(doc, rs, i, serializeNode(doc, rs, Order(doc)[i], stk, th))

----------------------------------------------------------------------------
(* The documents and instances a behaviour draws from, by mode.            *)

SeqsFrom(S, lo, hi) == UNION {[1..k -> S] : k \in lo..hi}

Txt(s) == Text(<<Leaf(s, <<>>)>>)

Para(s) == Block("paragraph", NoData, <<Txt(s)>>)

\* A block of a type no rule knows.
Widget == Block("widget", NoData, <<Txt(<<"w">>)>>)

Aligns == {"left", "center", "right", "none"}

TableHead(align, nodes) == Block("table-head", [align |-> align], nodes)

TableCell(nodes) == Block("table-cell", NoData, nodes)

TableRow(cells) == Block("table-row", NoData, cells)

\* A table of a header row with the given alignments and `rows` data rows.
Table(aligns, rows) ==
    Block("table", NoData,
          <<TableRow([i \in 1..Len(aligns) |-> TableHead(aligns[i], <<Txt(<<"h">>)>>)])>>
          \o [r \in 1..rows |-> TableRow([i \in 1..Len(aligns) |-> TableCell(<<Txt(<<"d">>)>>)])])

Tables == {Table(a, MaxRows) : a \in SeqsFrom(Aligns, 1, MaxCols)}

\* A table-head outside any table-row.
StrayHeads == {TableHead("left", <<Txt(<<"s">>)>>)}

\* Documents of up to `top` top-level nodes: tables, stray table-heads, paragraphs.
TableDocs(top) == {Document(n) : n \in SeqsFrom(Tables \cup StrayHeads \cup {Para(<<"p">>)}, 1, top)}

\* A one-column table inside a cell of another table.
Inner(align) == Table(<<align>>, 1)

\* Table(aligns, 1) with `inner` as the content of header cell h (h > 0) or of
\* data cell c (c > 0).
NestedTable(aligns, h, c, inner) ==
    Block("table", NoData,
          <<TableRow([i \in 1..Len(aligns) |->
                TableHead(aligns[i], IF i = h THEN <<inner>> ELSE <<Txt(<<"h">>)>>)]),
            TableRow([i \in 1..Len(aligns) |->
                TableCell(IF i = c THEN <<inner>> ELSE <<Txt(<<"d">>)>>)])>>)

NestedTables ==
    {NestedTable(a, h, 0, Inner(b)) : a \in SeqsFrom(Aligns, 1, MaxCols), h \in 1..MaxCols, b \in Aligns}
    \cup {NestedTable(a, 0, c, Inner(b)) : a \in SeqsFrom(Aligns, 1, MaxCols), c \in 1..MaxCols, b \in Aligns}

NestedDocs ==
    {Document(<<t>>) : t \in NestedTables}
    \cup {Document(n) : n \in SeqsFrom({Table(<<a>>, 1) : a \in Aligns}, 1, MaxTop)}

MarkTypes == {"bold", "italic", "code", "inserted", "deleted"}

\* Leaves with and without text, with recognised and unrecognised marks.
MarkDocs ==
    {Document(<<Block("paragraph", NoData, <<Text(<<Leaf(t, m)>>)>>)>>) :
        t \in {<<>>, <<"a">>}, m \in SeqsFrom(MarkTypes \cup {"underline"}, 0, MaxMarks)}
    \cup {Document(<<Widget>>),
          Document(<<Para(<<"a">>), Widget>>),
          Document(<<Block("paragraph", NoData,
                           <<Inline("mention", NoData, <<Txt(<<>>)>>)>>)>>)}

\* A data mapping that holds the fields of `present`.
DataWith(present) ==
    [f \in present |-> IF f \in {"src", "image", "url"} THEN <<"u">> ELSE <<"t">>]

ImageFields == {"alt", "src"}

LinkbarFields == {"image", "url", "title", "description", "domain"}

\* Unrecognised blocks, and image and linkbar blocks with any part of their data.
BlockDocs ==
    {Document(<<Widget>>), Document(<<Para(<<"a">>)>>)}
    \cup {Document(<<Block("image", DataWith(p), <<Txt(<<>>)>>)>>) : p \in SUBSET ImageFields}
    \cup {Document(<<Block("linkbar", DataWith(p), <<Txt(<<>>)>>)>>) : p \in SUBSET LinkbarFields}

\* Caller-supplied rules: overrides of a block, of strings and of a mark, a rule
\* that matches and returns the empty string, and one without serialize.
CustomRules ==
    {Custom("block", "table-head", <<"H">>), Custom("block", "table-head", <<>>),
     Custom("block", "widget", <<"W">>), Custom("string", "", <<"S">>),
     Custom("mark", "bold", <<"B">>), NoSerialize}

RuleDocs ==
    {Document(<<Table(<<"left">>, 1)>>),
     Document(<<Widget>>),
     Document(<<Block("paragraph", NoData, <<Text(<<Leaf(<<"a">>, <<"bold">>)>>)>>)>>)}

TopBlocks ==
    {Para(<<"h", "e", "l", "l", "o">>), Para(<<" ", "a", " ">>), Para(<<>>), Widget,
     Block("horizontal-rule", NoData, <<Txt(<<>>)>>),
     Block("code", NoData, <<Txt(<<"\t", "c">>)>>)}

TopDocs == {Document(n) : n \in SeqsFrom(TopBlocks, 0, MaxTop)}

EscapeAlphabet == {"\\", "@", "!", "[", "]", "%", "a"}

EscapeDocs == {Document(<<Para(t)>>) : t \in SeqsFrom(EscapeAlphabet, 0, MaxLen)}

ListTypes == {"todo-list", "bulleted-list", "ordered-list"}

ListItem(checked, nodes) == Block("list-item", [checked |-> checked], nodes)

\* Lists of two items whose last item may hold a nested list, to depth d, and
\* lists without items.
RECURSIVE Lists(_)
Lists(d) ==
    LET nested == IF d = 0 THEN {<<>>} ELSE {<<>>} \cup {<<l>> : l \in Lists(d - 1)}
    IN  {Block(ty, NoData, <<ListItem(TRUE, <<Para(<<"a">>)>>), ListItem(FALSE, <<Para(t)>> \o n)>>) :
            ty \in ListTypes, t \in {<<"b">>, <<"b", "\n", "c">>}, n \in nested}
        \cup {Block(ty, NoData, <<>>) : ty \in ListTypes}

ListDocs ==
    {Document(<<l>>) : l \in Lists(MaxDepth)}
    \cup {Document(<<Block("block-quote", NoData, <<l>>)>>) : l \in Lists(MaxDepth)}

Docs(m) ==
    CASE m = "tables" -> TableDocs(MaxTop)
      [] m = "nested" -> NestedDocs
      [] m = "marks" -> MarkDocs
      [] m = "blocks" -> BlockDocs
      [] m = "rules" -> RuleDocs
      [] m = "top" -> TopDocs
      [] m = "escape" -> EscapeDocs
      [] m = "lists" -> ListDocs

\* options.rules of the instances a mode constructs.
RuleSets(m) == IF m = "rules" THEN SeqsFrom(CustomRules, 0, MaxRules) ELSE {<<>>}

----------------------------------------------------------------------------
(* The state machine.                                                      *)

InitMode(m) ==
    /\ mode = m
    /\ rules = Constructor(<<>>)
    /\ document = Document(<<>>)
    /\ pos = 0
    /\ stack = <<>>
    /\ tableHeader = <<>>
    /\ output = <<>>
    /\ status = "idle"
    /\ calls = 0
    /\ log = <<>>

\* new Markdown({ rules }).serialize(state): the call begins.
Start ==
    /\ status = "idle"
    /\ calls < MaxCalls
    /\ \E custom \in RuleSets(mode), doc \in Docs(mode) :
          /\ rules' = Constructor(custom)
          /\ document' = doc
    /\ pos' = 0
    /\ stack' = <<>>
    /\ output' = <<>>
    /\ status' = "running"
    /\ calls' = calls + 1
    /\ log' = <<>>
    /\ UNCHANGED <<mode, tableHeader>>

\* The state once serializeNode has given r for the next node.
Rendering(r) ==
    /\ stack' = r.stack
    /\ tableHeader' = r.tableHeader
    /\ log' = r.log
    /\ status' = IF r.threw THEN "error" ELSE "running"

\* serializeNode reaches the rules for the next node in post-order.
StepNode ==
    /\ status = "running"
    /\ pos < Len(Order(document))
    /\ Rendering(serializeNode(document, rules, Order(document)[pos + 1], stack, tableHeader))
    /\ pos' = pos + 1
    /\ UNCHANGED <<mode, rules, document, output, calls>>

\* serialize joins the top-level results and returns.
Finish ==
    /\ status = "running"
    /\ pos = Len(Order(document))
    /\ output' = JoinElements(stack)
    /\ status' = "done"
    /\ UNCHANGED <<mode, rules, document, pos, stack, tableHeader, calls, log>>

\* The caller has the result (or the exception); nothing of the call remains
\* but tableHeader.
Return ==
    /\ status \in {"done", "error"}
    /\ status' = "idle"
    /\ rules' = Constructor(<<>>)
    /\ document' = Document(<<>>)
    /\ pos' = 0
    /\ stack' = <<>>
    /\ output' = <<>>
    /\ log' = <<>>
    /\ UNCHANGED <<mode, tableHeader, calls>>

Next == Start \/ StepNode \/ Finish \/ Return

Spec == InitMode("tables") /\ [][Next]_vars

SpecNested == InitMode("nested") /\ [][Next]_vars

SpecMarks == InitMode("marks") /\ [][Next]_vars

SpecBlocks == InitMode("blocks") /\ [][Next]_vars

SpecRules == InitMode("rules") /\ [][Next]_vars

SpecTop == InitMode("top") /\ [][Next]_vars

SpecEscape == InitMode("escape") /\ [][Next]_vars

SpecLists == InitMode("lists") /\ [][Next]_vars

----------------------------------------------------------------------------
(* What the claims speak of.                                               *)

\* The node whose rules the last step consulted.
Current == NodeAt(document, Order(document)[pos])

Rendered == status = "running" /\ pos > 0

\* The return value of serializeNode for Current.
Result == stack[Len(stack)]

RECURSIVE Concat(_)
Concat(list) == IF list = <<>> THEN <<>> ELSE Head(list) \o Concat(Tail(list))

Contains(s, sub) ==
    \E i \in 1..(Len(s) + 1 - Len(sub)) : SubSeq(s, i, i + Len(sub) - 1) = sub

\* The text up to the first newline, and the text after it.
RECURSIVE FirstLine(_)
FirstLine(s) ==
    IF s = <<>> \/ Head(s) = "\n" THEN <<>> ELSE <<Head(s)>> \o FirstLine(Tail(s))

\* The lines of a text: the pieces between its newlines.
RECURSIVE Lines(_)
Lines(s) ==
    LET first == FirstLine(s)
    IN  IF Len(first) = Len(s) THEN <<first>>
        ELSE <<first>> \o Lines(SubSeq(s, Len(first) + 2, Len(s)))

Spaces(n) == [i \in 1..n |-> " "]

\* The number of spaces a line begins with.
RECURSIVE LeadingSpaces(_)
LeadingSpaces(line) ==
    IF line # <<>> /\ Head(line) = " " THEN 1 + LeadingSpaces(Tail(line)) ELSE 0

----------------------------------------------------------------------------
(* Tables.                                                                 *)

\* The marker the specification gives for an alignment.
SeparatorMarker(align) ==
    CASE align = "left" -> <<"|", ":", "-", "-", "-", " ">>
      [] align = "center" -> <<"|", ":", "-", "-", "-", ":">>
      [] align = "right" -> <<"|", " ", "-", "-", "-", ":">>
      [] align = "none" -> <<"|", " ", "-", "-", "-", " ">>

\* The separator line of a header row: one marker per table-head, then `|`.
SeparatorLine(row) ==
    Concat([i \in 1..Len(row.nodes) |-> SeparatorMarker(row.nodes[i].data.align)]) \o <<"|", "\n">>

\* A row of cells holding plain text: `| c1 | c2 |`.
PlainRow(row) ==
    Concat([i \in 1..Len(row.nodes) |->
                <<"|", " ">> \o row.nodes[i].nodes[1].leaves[1].text \o <<" ">>]) \o <<"|", "\n">>

\* The rendering the specification gives for a table of Tables.
ExpectedTable(t) ==
    PlainRow(t.nodes[1]) \o SeparatorLine(t.nodes[1])
    \o Concat([r \in 1..(Len(t.nodes) - 1) |-> PlainRow(t.nodes[r + 1])])

\* C1: every table whose first row is of table-head cells and whose later
\* rows are of table-cell cells renders as its header row, one separator line
\* of exactly its own alignment markers, then its data rows and no further
\* separator line.
C1_TableRendering ==
    (Rendered /\ Current \in Tables) => Result = ExpectedTable(Current)

IsHeaderRow(node) ==
    /\ node.type = "table-row"
    /\ node.nodes # <<>>
    /\ \A i \in 1..Len(node.nodes) : node.nodes[i].type = "table-head"

IsDataRow(node) ==
    /\ node.type = "table-row"
    /\ \A i \in 1..Len(node.nodes) : node.nodes[i].type = "table-cell"

\* C2: in a document of several tables, following one another or nested in a
\* cell of another, the separator line of each table holds exactly the markers
\* of that table's own table-head cells, in order, and a data row carries no
\* separator line.
C2_SeparatorOwnMarkers ==
    /\ (Rendered /\ IsHeaderRow(Current)) =>
            Result = log[1].children \o <<"|", "\n">> \o SeparatorLine(Current)
    /\ (Rendered /\ IsDataRow(Current)) => Result = log[1].children \o <<"|", "\n">>

\* C9: the output of a serialize call is a function of its document (and its
\* instance) alone: it is the output of the same call made with no call before it.
C9_OutputOfOwnDocumentOnly ==
    status = "done" => output = Run(document, rules, 1, <<>>, <<>>).output

\* The path is that of the first cell of the first row of a table.
IsFirstCellOfTable(doc, path) ==
    /\ Len(path) >= 3
    /\ SubSeq(path, Len(path) - 1, Len(path)) = <<1, 1>>
    /\ NodeAt(doc, SubSeq(path, 1, Len(path) - 2)).type = "table"
    /\ NodeAt(doc, SubSeq(path, 1, Len(path) - 1)).type = "table-row"

\* C10: the pending-header state is empty when the rules are consulted for the
\* first cell of a table's first row, whatever was rendered before the table.
C10_HeaderEmptyAtFirstCell ==
    (status = "running" /\ pos < Len(Order(document))
        /\ IsFirstCellOfTable(document, Order(document)[pos + 1]))
    => tableHeader = <<>>

----------------------------------------------------------------------------
(* Degrade-to-empty.                                                       *)

\* C6: the output of serialize never holds the text `undefined` (no text of
\* these documents holds it).
C6_NoUndefinedText ==
    status = "done" => ~Contains(output, Str(Undefined))

\* C7: serialize raises no error, whatever fields the data of a block lacks.
C7_NeverAborts == status # "error"

----------------------------------------------------------------------------
(* Dispatch.                                                               *)

IsCustom(rule) == rule.builtin = 0

Last(seq) == seq[Len(seq)]

\* The built-in group that accepts a kind.
GroupOf(kind) ==
    CASE kind = "string" -> 1 [] kind = "block" -> 2 [] kind = "inline" -> 3 [] kind = "mark" -> 4

\* Rule j is a caller-supplied rule that answers non-empty text for the object
\* of dispatch e.
Overrides(j, e) ==
    /\ IsCustom(rules[j])
    /\ rules[j].hasSerialize
    /\ rules[j].kind = e.kind
    /\ rules[j].type = e.type
    /\ rules[j].text # <<>>

\* Caller-supplied rules come first, then the built-in groups string, block,
\* inline, mark.
RulesInOrder ==
    /\ {rules[i].builtin : i \in 1..Len(rules)} \ {0} = 1..4
    /\ \A i, j \in 1..Len(rules) :
          i < j => /\ IsCustom(rules[j]) => IsCustom(rules[i])
                   /\ ~IsCustom(rules[i]) => rules[i].builtin < rules[j].builtin

\* The rules invoked for e are, in order, every rule with a serialize function
\* up to the last one invoked.
ConsultedInOrder(e) ==
    /\ e.invoked # <<>>
    /\ \A k, l \in 1..Len(e.invoked) : k < l => e.invoked[k] < e.invoked[l]
    /\ \A i \in 1..Len(rules) :
          (i <= Last(e.invoked) /\ rules[i].hasSerialize)
              <=> (\E k \in 1..Len(e.invoked) : e.invoked[k] = i)

\* The first rule with a non-empty answer gives the result, and no rule is
\* invoked after it; a caller-supplied one leaves tableHeader as it was.
FirstNonEmptyWins(e) ==
    IF \E j \in 1..Len(rules) : Overrides(j, e)
    THEN LET j == CHOOSE j \in 1..Len(rules) :
                     Overrides(j, e) /\ \A i \in 1..(j - 1) : ~Overrides(i, e)
         IN  /\ e.ret = rules[j].text
             /\ Last(e.invoked) = j
             /\ e.after = e.before
    ELSE IF Truthy(e.ret)
         THEN rules[Last(e.invoked)].builtin = GroupOf(e.kind)
         ELSE \A i \in 1..Len(rules) : rules[i].hasSerialize => Last(e.invoked) >= i

\* C3: for every node, mark and string the rules are consulted caller-supplied
\* first, then built-in; the first non-empty result is returned and no rule is
\* invoked after it, so a caller-supplied rule with a non-empty answer overrides
\* the built-in rendering and its update of tableHeader.
C3_CallerRulesFirst ==
    status \in {"running", "done"} =>
        /\ RulesInOrder
        /\ \A k \in 1..Len(log) : ConsultedInOrder(log[k]) /\ FirstNonEmptyWins(log[k])

\* A table-head rendered by the second of two caller-supplied rules, the first
\* having answered the empty string.
C3_Witness ==
    /\ status = "running"
    /\ Len(rules) = 6
    /\ \E k \in 1..Len(log) :
          /\ log[k].type = "table-head"
          /\ log[k].invoked = <<1, 2>>
          /\ log[k].ret = <<"H">>
          /\ tableHeader = <<>>

----------------------------------------------------------------------------
(* The facade.                                                             *)

\* The results of the top-level nodes, an unmatched node giving the empty text.
Renderings == [i \in 1..Len(stack) |-> IF stack[i] = Undefined THEN <<>> ELSE stack[i]]

\* The texts of a list with one newline between consecutive texts.
WithNewlines(list) ==
    Concat([i \in 1..Len(list) |-> IF i < Len(list) THEN list[i] \o <<"\n">> ELSE list[i]])

Hello == <<"h", "e", "l", "l", "o">>

\* C4: the output of serialize is the renderings of the top-level nodes, in
\* order, joined with one newline, less its leading whitespace and nothing
\* else; one paragraph `hello` gives `hello\n`; the output does not begin with
\* whitespace.
C4_JoinAndTrimLeft ==
    status = "done" =>
        LET joined == WithNewlines(Renderings)
        IN  /\ Len(stack) = Len(document.nodes)
            /\ \E k \in 0..Len(joined) :
                  /\ output = SubSeq(joined, k + 1, Len(joined))
                  /\ \A i \in 1..k : joined[i] \in WhiteSpace
            /\ output # <<>> => output[1] \notin WhiteSpace
            /\ document = Document(<<Para(Hello)>>) => output = Hello \o <<"\n">>

\* An unmatched node before a paragraph whose text has spaces on both sides.
C4_Witness ==
    /\ status = "done"
    /\ document = Document(<<Widget, Para(<<" ", "a", " ">>)>>)
    /\ stack = <<Undefined, <<"\n", " ", "a", " ", "\n">>>>
    /\ output = <<"a", " ", "\n">>

----------------------------------------------------------------------------
(* Escaping.                                                               *)

EscapedChars == {"\\", "@", "!", "[", "]", "%"}

\* t with one backslash before each escaped character.
Escaped(t) ==
    Concat([i \in 1..Len(t) |-> IF t[i] \in EscapedChars THEN <<"\\", t[i]>> ELSE <<t[i]>>])

\* s less the backslash before each escaped character.
RECURSIVE Unescape(_)
Unescape(s) ==
    IF s = <<>> THEN <<>>
    ELSE IF Head(s) = "\\" /\ Len(s) >= 2 /\ s[2] \in EscapedChars
         THEN <<s[2]>> \o Unescape(SubSeq(s, 3, Len(s)))
    ELSE <<Head(s)>> \o Unescape(Tail(s))

\* C5: the plain-text rule returns its text with one backslash before each of
\* \ @ ! [ ] % and every other character as it was, so that removing those
\* backslashes restores the text.
C5_EscapeRoundTrip ==
    \A k \in 1..Len(log) :
        log[k].kind = "string" =>
            LET t == log[k].children
                r == StringRule(StringObj, t, log[k].before).ret
            IN  /\ r = Escaped(t)
                /\ Unescape(r) = t
                /\ t # <<>> => log[k].ret = r

\* A text with a backslash before an escaped character has been escaped.
C5_Witness ==
    \E k \in 1..Len(log) :
        /\ log[k].kind = "string"
        /\ log[k].children = <<"\\", "@", "a">>
        /\ log[k].ret = <<"\\", "\\", "\\", "@", "a">>

----------------------------------------------------------------------------
(* Lists.                                                                  *)

\* A text with every one of its lines three spaces further in.
Indented(s) ==
    WithNewlines([i \in 1..Len(Lines(s)) |-> Spaces(3) \o Lines(s)[i]])

\* The paths of the list-items of the nodes below `path` from child i on, in
\* document order.
RECURSIVE ItemPaths(_, _, _)
ItemPaths(doc, path, i) ==
    IF i > Len(NodeAt(doc, path).nodes) THEN <<>>
    ELSE (IF NodeAt(doc, Append(path, i)).type = "list-item" THEN <<Append(path, i)>> ELSE <<>>)
         \o ItemPaths(doc, Append(path, i), 1) \o ItemPaths(doc, path, i + 1)

\* The lists above the node at `path` whose parent is not the document.
NestingDepth(doc, path) ==
    Cardinality({k \in 2..(Len(path) - 1) : NodeAt(doc, SubSeq(path, 1, k)).type \in ListTypes})

\* The lines of a text that begin, after their spaces, with a list marker.
RECURSIVE MarkerLines(_)
MarkerLines(lines) ==
    IF lines = <<>> THEN <<>>
    ELSE LET line == Head(lines)
             n == LeadingSpaces(line)
         IN  (IF n < Len(line) /\ line[n + 1] \in {"*", "1", "["} THEN <<line>> ELSE <<>>)
             \o MarkerLines(Tail(lines))

\* C8: a list whose parent is the document renders as a newline and its items
\* as they are; a list with any other parent renders as a newline and its
\* items with three spaces before every line and nothing else changed; in the
\* output an item of a list nested d deep begins 3*d spaces in.
C8_ListIndentation ==
    /\ (Rendered /\ Current.type \in ListTypes) =>
            IF Len(Order(document)[pos]) = 1
            THEN Result = <<"\n">> \o log[1].children
            ELSE Result = <<"\n">> \o Indented(log[1].children)
    /\ status = "done" =>
            LET items == ItemPaths(document, <<>>, 1)
                lines == MarkerLines(Lines(output))
            IN  /\ Len(lines) = Len(items)
                /\ \A i \in 1..Len(items) :
                      LeadingSpaces(lines[i]) = 3 * NestingDepth(document, items[i])

\* An ordered-list of two items, one of two lines, rendered inside a list-item.
C8_Witness ==
    /\ Rendered
    /\ Current.type = "ordered-list"
    /\ Len(Order(document)[pos]) = 3
    /\ Result = <<"\n", " ", " ", " ", "1", ".", " ", "a", "\n",
                  " ", " ", " ", "1", ".", " ", "b", " ", " ", " ", " ", "\n",
                  " ", " ", " ", "c", "\n", " ", " ", " ">>

====
